---- MODULE Spec2Model ----
(***************************************************************************)
(* The bridge client library of eth-merkle-bridge-js: the operations of    *)
(* aergoToEth.js and ethToAergo.js (both in src/src/aergoToEth.js) as a     *)
(* state machine.  One call of an exported operation is in flight at a     *)
(* time; each of its awaits is one step, and the two chains move between   *)
(* the steps.  SpecRepeat calls an operation twice, SpecLive adds the      *)
(* fairness of the event loop, SpecKeys applies the key derivations to two *)
(* inputs.                                                                 *)
(***************************************************************************)
EXTENDS Integers, Sequences, FiniteSets, TLC

\* Bounds of the model.
MaxHeight == 2
MaxAmount == 2
MaxTokenIdLen == 2

\* ------------------------------------------------------------------------
\* JavaScript values and bignumber.js
\* ------------------------------------------------------------------------

\* Strings are sequences of one-character strings.
HexDigits == <<"0", "1", "2", "3", "4", "5", "6", "7", "8", "9",
               "a", "b", "c", "d", "e", "f">>

UpperHex == <<"A", "B", "C", "D", "E", "F">>

IsDecChar(c) == \E i \in 1..10 : HexDigits[i] = c

IsHexChar(c) == (\E i \in 1..16 : HexDigits[i] = c) \/ (\E i \in 1..6 : UpperHex[i] = c)

\* String.prototype.toLowerCase on one character.
LowerChar(c) ==
    IF \E i \in 1..6 : UpperHex[i] = c
    THEN HexDigits[10 + (CHOOSE i \in 1..6 : UpperHex[i] = c)]
    ELSE c

toLowerCase(s) == [i \in 1..Len(s) |-> LowerChar(s[i])]

\* s.slice(2)
slice2(s) == IF Len(s) <= 2 THEN <<>> ELSE SubSeq(s, 3, Len(s))

DigitValue(c) == (CHOOSE i \in 1..16 : HexDigits[i] = LowerChar(c)) - 1

RECURSIVE ParseDigits(_, _)
ParseDigits(s, base) ==
    IF s = <<>> THEN 0
    ELSE ParseDigits(SubSeq(s, 1, Len(s) - 1), base) * base + DigitValue(s[Len(s)])

RECURSIVE FormatDigits(_, _)
FormatDigits(n, base) ==
    IF n < base THEN <<HexDigits[n + 1]>>
    ELSE FormatDigits(n \div base, base) \o <<HexDigits[(n % base) + 1]>>

\* The three shapes of value the RPC clients hand back or the code assigns.
Str(s) == [kind |-> "string", s |-> s, n |-> 0]
Num(n) == [kind |-> "number", s |-> <<>>, n |-> n]
Undefined == [kind |-> "undefined", s |-> <<>>, n |-> 0]

\* What web3.eth.getStorageAt answers for a storage word: "0x" and hex digits.
HexWord(n) == Str(<<"0", "x">> \o FormatDigits(n, 16))

\* What herajs decodes a stored Lua bignum to: its decimal digits.
DecimalValue(n) == Str(FormatDigits(n, 10))

NaN == [nan |-> TRUE, n |-> 0]

\* new BigNumber(v): a number, a "0x" hex string, a decimal string; anything
\* else (undefined, a malformed string) is NaN.
BigNumber(v) ==
    CASE v.kind = "number" -> [nan |-> FALSE, n |-> v.n]
      [] v.kind = "string" ->
            IF Len(v.s) > 2 /\ v.s[1] = "0" /\ v.s[2] = "x"
               /\ \A i \in 3..Len(v.s) : IsHexChar(v.s[i])
            THEN [nan |-> FALSE, n |-> ParseDigits(slice2(v.s), 16)]
            ELSE IF Len(v.s) > 0 /\ \A i \in 1..Len(v.s) : IsDecChar(v.s[i])
            THEN [nan |-> FALSE, n |-> ParseDigits(v.s, 10)]
            ELSE NaN
      [] OTHER -> NaN

\* BigNumber.prototype.minus
minus(a, b) == IF a.nan \/ b.nan THEN NaN ELSE [nan |-> FALSE, n |-> a.n - b.n]

\* A faulty variant: BigNumber.prototype.lte in the place of eq.
lte(a, b) == ~a.nan /\ ~b.nan /\ a.n <= b.n

\* BigNumber.prototype.eq: NaN equals nothing.
eq(a, b) == ~a.nan /\ ~b.nan /\ a.n = b.n

\* BigNumber.prototype.toString(10)
toString10(a) ==
    IF a.nan THEN <<"N", "a", "N">>
    ELSE IF a.n < 0 THEN <<"-">> \o FormatDigits(0 - a.n, 10)
    ELSE FormatDigits(a.n, 10)

\* BigNumber.prototype.toNumber
toNumber(a) == a.n

\* ------------------------------------------------------------------------
\* Addresses, buffers and storage keys
\* ------------------------------------------------------------------------

\* The addresses a caller passes: a well-formed one per role, and a malformed
\* one per chain.
BridgeEth == <<"0", "x", "E", "f">>
ReceiverEth == <<"0", "x", "A", "b">>
TokenEth == <<"0", "x", "C", "d">>
SpenderEth == <<"0", "x", "E", "f">>
BadEth == <<"A", "b">>
BridgeAergo == <<"A", "m", "B">>
ReceiverAergo == <<"A", "m", "R">>
SenderAergo == <<"A", "m", "S">>
TokenAergo == <<"A", "m", "T">>
BadAergo == <<"m", "B">>
TokenIdOk == <<"7">>
TokenIdBad == <<"x">>

\* utils.checkEthereumAddress: "0x" followed by hex digits only.
checkEthereumAddress(a) ==
    /\ Len(a) = Len(BridgeEth)
    /\ a[1] = "0" /\ a[2] = "x"
    /\ \A i \in 3..Len(a) : IsHexChar(a[i])

\* A faulty variant: the length goes unchecked.
checkAergoVersionByte(a) == a[1] = "A"

\* utils.checkAergoAddress: the 'A' version byte first, of the address length.
checkAergoAddress(a) == Len(a) = Len(BridgeAergo) /\ a[1] = "A"

\* utils.checkTokenId: decimal digits.
checkTokenId(t) == Len(t) > 0 /\ \A i \in 1..Len(t) : IsDecChar(t[i])

\* The characters of addresses and token ids, in the order of their codes:
\* '0' is 48, 'A' is 65, 'a' is 97.
Alphanumerics ==
    <<"0", "1", "2", "3", "4", "5", "6", "7", "8", "9",
      "A", "B", "C", "D", "E", "F", "G", "H", "I", "J", "K", "L", "M",
      "N", "O", "P", "Q", "R", "S", "T", "U", "V", "W", "X", "Y", "Z",
      "a", "b", "c", "d", "e", "f", "g", "h", "i", "j", "k", "l", "m",
      "n", "o", "p", "q", "r", "s", "t", "u", "v", "w", "x", "y", "z">>

\* The code of a letter or digit; 0 stands for anything else.
CharCode(c) ==
    IF \E i \in 1..Len(Alphanumerics) : Alphanumerics[i] = c
    THEN LET i == CHOOSE i \in 1..Len(Alphanumerics) : Alphanumerics[i] = c
         IN IF i <= 10 THEN 47 + i ELSE IF i <= 36 THEN 54 + i ELSE 60 + i
    ELSE 0

\* The utf-8 byte of a letter or digit, as its two hex digits.
Utf8Byte(c) ==
    IF CharCode(c) = 0 THEN <<c>>
    ELSE <<HexDigits[(CharCode(c) \div 16) + 1], HexDigits[(CharCode(c) % 16) + 1]>>

\* A Buffer is a sequence of bytes; a byte is written as the tuple of its two
\* hex digits, whether it was decoded from hex or encoded from utf-8 text.  A
\* prefix literal of the source ('_sv__burns-') is spelled as one unit.
BufferFromUtf8(s) == [i \in 1..Len(s) |-> Utf8Byte(s[i])]

\* Buffer.from(s, 'hex'): two digits a byte, the digits' case is lost.
BufferFromHex(s) ==
    [i \in 1..(Len(s) \div 2) |-> <<LowerChar(s[2 * i - 1]), LowerChar(s[2 * i])>>]

\* Buffer.concat([Buffer.alloc(31), Buffer.from(b, 'hex')]): a 32-byte storage
\* position, its 31 zero bytes spelled as one unit.
position(b) == << <<"00x31">> >> \o BufferFromHex(b)

\* web3-utils keccak256: modelled as an injective constructor.
keccak256(buf) == [keccak256 |-> buf]

\* getStorageAt's position argument when it is the number 1.
SlotNumber(n) == [slot |-> n]

\* ------------------------------------------------------------------------
\* Key derivations of the exported operations
\* ------------------------------------------------------------------------

\* unlockable: accountRef, src/src/aergoToEth.js:114-117
BurnAccountRef(receiverEthAddr, erc20Addr) ==
    BufferFromHex(toLowerCase(slice2(receiverEthAddr))) \o BufferFromHex(slice2(erc20Addr))

\* unlockable: ethTrieKey; _unlocks is the 7th var in EthMerkleBridge contract
UnlocksTrieKey(receiverEthAddr, erc20Addr) ==
    keccak256(BurnAccountRef(receiverEthAddr, erc20Addr) \o position(<<"0", "6">>))

\* unlockable and buildBurnProof: aergoStorageKey
BurnsStorageKey(receiverEthAddr, erc20Addr) ==
    BufferFromUtf8(<<"_sv__burns-">>) \o BurnAccountRef(receiverEthAddr, erc20Addr)

\* validateERC721Unlockable: accountRef
BurnARC2AccountRef(receiverEthAddr, tokenId, erc721Addr) ==
    BufferFromHex(toLowerCase(slice2(receiverEthAddr)))
        \o BufferFromUtf8(tokenId)
        \o BufferFromHex(toLowerCase(slice2(erc721Addr)))

\* validateERC721Unlockable: ethTrieKey; position 0a
UnlocksERC721TrieKey(receiverEthAddr, tokenId, erc721Addr) ==
    keccak256(BurnARC2AccountRef(receiverEthAddr, tokenId, erc721Addr)
              \o position(<<"0", "a">>))

\* validateERC721Unlockable and buildUnlockERC721Args: aergoStorageKey
BurnsARC2StorageKey(receiverEthAddr, tokenId, erc721Addr) ==
    BufferFromUtf8(<<"_sv__burnsARC2-">>)
        \o BurnARC2AccountRef(receiverEthAddr, tokenId, erc721Addr)

\* unfreezable, mintable, buildLockProof: accountRef
LockAccountRef(receiverAergoAddr, erc20Addr) ==
    BufferFromUtf8(receiverAergoAddr) \o BufferFromHex(slice2(erc20Addr))

\* unfreezable, mintable, buildLockProof: ethTrieKey; _locks is the 6th var
LocksTrieKey(receiverAergoAddr, erc20Addr) ==
    keccak256(LockAccountRef(receiverAergoAddr, erc20Addr) \o position(<<"0", "5">>))

\* unfreezable: aergoStorageKey
UnfreezesStorageKey(receiverAergoAddr, aergoErc20Addr) ==
    BufferFromUtf8(<<"_sv__unfreezes-">> \o receiverAergoAddr)
        \o BufferFromHex(slice2(aergoErc20Addr))

\* mintable: aergoStorageKey
MintsStorageKey(receiverAergoAddr, erc20Addr) ==
    BufferFromUtf8(<<"_sv__mints-">> \o receiverAergoAddr)
        \o BufferFromHex(slice2(erc20Addr))

buildLockERC721TrieKey(receiverAergoAddr, tokenId, erc721Addr) ==
    keccak256(BufferFromUtf8(receiverAergoAddr)
              \o BufferFromUtf8(tokenId)
              \o BufferFromHex(slice2(erc721Addr))
              \o position(<<"0", "9">>))

\* validateARC2Mintable: aergoStorageKey
MintsARC2StorageKey(receiverAergoAddr, tokenId, erc721Addr) ==
    BufferFromUtf8(<<"_sv__mintsARC2-">> \o receiverAergoAddr)
        \o BufferFromUtf8(tokenId)
        \o BufferFromHex(slice2(erc721Addr))

\* The anchor height variable of the Aergo bridge contract.
AnchorHeightKey == BufferFromUtf8(<<"_sv__anchorHeight">>)

\* ------------------------------------------------------------------------
\* State
\* ------------------------------------------------------------------------

VARIABLES
    bridge,          \* the module exercised: "aergoToEth" or "ethToAergo"
    chainHeight,     \* height of the chain the deposits are made on
    depositRecord,   \* the holder's deposit record after each block (burns / locks)
    anchorHeight,    \* last merged height, stored on the other chain
    withdrawRecord,  \* the holder's withdraw record on the other chain (unlocks / mints)
    op,              \* the exported operation in flight, "none" when idle
    args,            \* its arguments
    pc,              \* the await it stands at
    loc,             \* its local variables
    rpcLog,          \* the RPC requests it has issued, with their answers
    txSent,          \* the transactions it has submitted to a chain
    result,          \* what it returned or threw
    given,           \* what else it was given: what the ABI holds, what a send answered
    prev             \* an earlier call as its caller saw it; NoCall when none is kept

vars == <<bridge, chainHeight, depositRecord, anchorHeight, withdrawRecord,
          op, args, pc, loc, rpcLog, txSent, result, given, prev>>

chainVars == <<chainHeight, depositRecord, anchorHeight, withdrawRecord>>

callVars == <<op, args, pc, loc, rpcLog, txSent, result, given>>

\* ------------------------------------------------------------------------
\* The two chains, as the RPC clients show them
\* ------------------------------------------------------------------------

\* A record that was never written is the empty set, a written one {n}.
RecordValue(r) == IF r = {} THEN 0 ELSE CHOOSE n \in r : TRUE

\* The holder's records sit under these keys of the two bridge contracts.
HolderBurnsKey == << <<"_sv__burns-">>, <<"a", "b">>, <<"c", "d">> >>
HolderUnlocksKey ==
    [keccak256 |-> << <<"a", "b">>, <<"c", "d">>, <<"00x31">>, <<"0", "6">> >>]
HolderLocksKey ==
    [keccak256 |-> << <<"4", "1">>, <<"6", "d">>, <<"5", "2">>, <<"c", "d">>, <<"00x31">>, <<"0", "5">> >>]
HolderMintsKey == << <<"_sv__mints-">>, <<"4", "1">>, <<"6", "d">>, <<"5", "2">>, <<"c", "d">> >>
HolderUnfreezesKey == << <<"_sv__unfreezes-">>, <<"4", "1">>, <<"6", "d">>, <<"5", "2">>, <<"c", "d">> >>

\* The deposit record as of block h.
DepositAt(h) == depositRecord[h + 1]

\* An answer of an RPC: a value, or a rejected promise.
Answer(v) == [ok |-> TRUE, value |-> v]
Rejected == [ok |-> FALSE, value |-> Undefined]

\* The block header herajs returns, and the root the library decodes from it.
BlocksRootHash(h) == [base64 |-> h]
BufferFromBase64(b) == [root |-> b.base64]
BlockHeaders(h) ==
    IF h \in 0..chainHeight
    THEN << [header |-> [blockno |-> h, blocksroothash |-> BlocksRootHash(h)]] >>
    ELSE <<>>

\* Requests.
GetStorageAt(addr, pos, block) ==
    [rpc |-> "web3.eth.getStorageAt", addr |-> addr, key |-> pos, block |-> block,
     root |-> {}, compressed |-> FALSE]
GetProof(addr, trieKey, block) ==
    [rpc |-> "web3.eth.getProof", addr |-> addr, key |-> trieKey, block |-> block,
     root |-> {}, compressed |-> FALSE]
GetBlockHeaders(h) ==
    [rpc |-> "hera.getBlockHeaders", addr |-> <<>>, key |-> <<>>, block |-> {h},
     root |-> {}, compressed |-> FALSE]
QueryContractState(addr, key, root) ==
    [rpc |-> "hera.queryContractState", addr |-> addr, key |-> key, block |-> {},
     root |-> root, compressed |-> FALSE]
QueryContractStateProof(addr, key, root) ==
    [rpc |-> "hera.queryContractStateProof", addr |-> addr, key |-> key, block |-> {},
     root |-> root, compressed |-> TRUE]

\* The height a request reads the deposit chain at: a root's block, a block
\* number, or the latest block.
ReadHeight(req) ==
    IF req.root # {} THEN (CHOOSE r \in req.root : TRUE).root
    ELSE IF req.block # {} THEN CHOOSE h \in req.block : TRUE
    ELSE chainHeight

\* Ethereum storage: one word per position, zero when never written.
EthStorage(req) ==
    IF bridge = "aergoToEth"
    THEN IF req.key = SlotNumber(1) THEN HexWord(anchorHeight)
         ELSE IF req.key = HolderUnlocksKey THEN HexWord(RecordValue(withdrawRecord))
         ELSE HexWord(0)
    ELSE IF req.key = HolderLocksKey /\ ReadHeight(req) \in 0..chainHeight
         THEN HexWord(RecordValue(DepositAt(ReadHeight(req))))
         ELSE HexWord(0)

\* One state variable of the Aergo bridge contract: the empty set when it was
\* never written.
AergoStateVar(key, h) ==
    IF key = AnchorHeightKey
    THEN IF bridge = "ethToAergo" THEN {anchorHeight} ELSE {}
    ELSE IF bridge = "aergoToEth"
    THEN IF key = HolderBurnsKey /\ h \in 0..chainHeight THEN DepositAt(h) ELSE {}
    ELSE IF key \in {HolderMintsKey, HolderUnfreezesKey} THEN withdrawRecord ELSE {}

\* A stored value as herajs decodes it: a Lua number is a number, a Lua bignum
\* its decimal digits.
AergoValue(key, v) ==
    IF key = AnchorHeightKey THEN Num(RecordValue(v)) ELSE DecimalValue(RecordValue(v))

\* hera.queryContractState of one variable: its value; a variable that is not
\* in the state rejects.
AergoQueryOne(req) ==
    LET v == AergoStateVar(req.key, ReadHeight(req))
    IN IF v = {} THEN Rejected ELSE Answer(AergoValue(req.key, v))

\* hera.queryContractState of several variables: the list of their values,
\* undefined for a variable that is not in the state.
AergoQueryMany(req) ==
    Answer([i \in 1..Len(req.key) |->
               LET v == AergoStateVar(req.key[i], chainHeight)
               IN IF v = {} THEN Undefined ELSE AergoValue(req.key[i], v)])

\* A block is added to the deposit chain; the holder may deposit in it.
NewBlock ==
    /\ chainHeight < MaxHeight
    /\ \E d \in RecordValue(DepositAt(chainHeight))..MaxAmount :
          depositRecord' = Append(depositRecord,
                                  IF d = RecordValue(DepositAt(chainHeight))
                                  THEN DepositAt(chainHeight) ELSE {d})
    /\ chainHeight' = chainHeight + 1
    /\ UNCHANGED <<bridge, prev, anchorHeight, withdrawRecord, callVars>>

\* The validators merge a newer root of the deposit chain on the other chain.
SetRoot ==
    /\ \E h \in (anchorHeight + 1)..chainHeight : anchorHeight' = h
    /\ UNCHANGED <<bridge, prev, chainHeight, depositRecord, withdrawRecord, callVars>>

\* The holder withdraws what is anchored: the bridge contract records the
\* anchored deposit as withdrawn.
Withdraw ==
    /\ RecordValue(DepositAt(anchorHeight)) > RecordValue(withdrawRecord)
    /\ withdrawRecord' = DepositAt(anchorHeight)
    /\ UNCHANGED <<bridge, prev, chainHeight, depositRecord, anchorHeight, callVars>>

\* ------------------------------------------------------------------------
\* The exported operations, their parameters and their format checks
\* ------------------------------------------------------------------------

AergoToEthOps ==
    {"buildBurnTx", "buildFreezeTx", "unlockable", "buildBurnProof", "buildFreezeProof",
     "unlock", "buildUnlockArgs", "validateERC721Unlockable", "unlockERC721",
     "buildUnlockERC721Args"}

EthToAergoOps ==
    {"increaseApproval", "lock", "unfreezable", "mintable", "buildLockProof",
     "buildMintTx", "buildUnfreezeTx", "validateARC2Mintable", "buildUnlockERC721Tx",
     "buildLockERC721Proof"}

OpsOf(b) == IF b = "aergoToEth" THEN AergoToEthOps ELSE EthToAergoOps

\* gasLimit=300000
DefaultGasLimit == 300000

\* The parameters of each operation (web3, hera and the ABIs left out).  The
\* token parameter is written erc20Addr whatever the operation calls it
\* (erc20Addr, aergoErc20Addr, erc721Addr).
Params(o) ==
    CASE o = "buildBurnTx" ->
            {"txSender", "amount", "mintedArc1Addr", "bridgeAergoAddr", "receiverEthAddr",
             "gasLimit"}
      [] o = "buildFreezeTx" ->
            {"txSender", "amount", "bridgeAergoAddr", "receiverEthAddr", "gasLimit"}
      [] o \in {"unlockable", "buildBurnProof", "buildFreezeProof", "buildUnlockArgs"} ->
            {"bridgeEthAddr", "bridgeAergoAddr", "receiverEthAddr", "erc20Addr"}
      [] o = "unlock" ->
            {"bridgeEthAddr", "bridgeAergoAddr", "receiverEthAddr", "erc20Addr", "gasLimit"}
      [] o \in {"validateERC721Unlockable", "buildUnlockERC721Args"} ->
            {"bridgeEthAddr", "bridgeAergoAddr", "receiverEthAddr", "tokenId", "erc20Addr"}
      [] o = "unlockERC721" ->
            {"bridgeEthAddr", "bridgeAergoAddr", "receiverEthAddr", "tokenId", "erc20Addr",
             "gasLimit"}
      [] o = "increaseApproval" -> {"spender", "amount", "erc20Addr", "gasLimit"}
      [] o = "lock" ->
            {"receiverAergoAddr", "erc20Addr", "amount", "bridgeEthAddr", "gasLimit"}
      [] o \in {"unfreezable", "mintable", "buildLockProof"} ->
            {"bridgeEthAddr", "bridgeAergoAddr", "receiverAergoAddr", "erc20Addr"}
      [] o \in {"buildMintTx", "buildUnfreezeTx"} ->
            {"txSender", "bridgeEthAddr", "bridgeAergoAddr", "receiverAergoAddr",
             "erc20Addr", "gasLimit"}
      [] o \in {"validateARC2Mintable", "buildLockERC721Proof"} ->
            {"bridgeEthAddr", "bridgeAergoAddr", "receiverAergoAddr", "tokenId", "erc20Addr"}
      [] o = "buildUnlockERC721Tx" ->
            {"txSender", "bridgeEthAddr", "bridgeAergoAddr", "receiverAergoAddr", "tokenId",
             "erc20Addr", "gasLimit"}

\* What the JSDoc says each parameter is.
ParamKind(p) ==
    CASE p \in {"txSender", "mintedArc1Addr", "bridgeAergoAddr", "receiverAergoAddr"} -> "aergo"
      [] p \in {"bridgeEthAddr", "receiverEthAddr", "erc20Addr", "spender"} -> "eth"
      [] p = "tokenId" -> "tokenId"
      [] OTHER -> "other"

AddressParams(o) == {p \in Params(o) : ParamKind(p) \in {"aergo", "eth"}}

\* The values a caller may pass for a parameter: a well-formed one, and a
\* second one (malformed; for gasLimit, given instead of omitted, which is {}).
GoodValue(p) ==
    CASE p = "txSender" -> SenderAergo
      [] p = "mintedArc1Addr" -> TokenAergo
      [] p = "bridgeAergoAddr" -> BridgeAergo
      [] p = "receiverAergoAddr" -> ReceiverAergo
      [] p = "bridgeEthAddr" -> BridgeEth
      [] p = "receiverEthAddr" -> ReceiverEth
      [] p = "erc20Addr" -> TokenEth
      [] p = "spender" -> SpenderEth
      [] p = "tokenId" -> TokenIdOk
      [] p = "amount" -> <<"1">>
      [] p = "gasLimit" -> {}

OtherValue(p) ==
    CASE ParamKind(p) = "aergo" -> BadAergo
      [] ParamKind(p) = "eth" -> BadEth
      [] p = "tokenId" -> TokenIdBad
      [] p = "gasLimit" -> {DefaultGasLimit + 1}

ArgSets(o) ==
    {[p \in Params(o) |-> IF p \in m THEN OtherValue(p) ELSE GoodValue(p)] :
        m \in SUBSET (Params(o) \ {"amount"})}

\* The gas limit in force: the default parameter value when omitted.
GasLimit(a) == IF a["gasLimit"] = {} THEN DefaultGasLimit ELSE CHOOSE g \in a["gasLimit"] : TRUE

\* The checks of buildBurnProof, shared by the operations that go through it.
BurnProofChecks ==
    <<"bridgeEthAddr", "bridgeAergoAddr", "receiverEthAddr", "erc20Addr">>

\* A faulty variant: the Aergo bridge address goes unchecked.
LockProofChecksButBridgeAergo ==
    <<"receiverAergoAddr", "erc20Addr", "bridgeEthAddr">>

\* The checks of buildLockProof.
LockProofChecks ==
    <<"receiverAergoAddr", "erc20Addr", "bridgeEthAddr", "bridgeAergoAddr">>

\* The format checks each operation runs before its first await, in order:
\* its own and those of the operations it calls on the way.
Checks(o) ==
    CASE o = "buildBurnTx" ->
            <<"txSender", "mintedArc1Addr", "bridgeAergoAddr", "receiverEthAddr">>
      [] o = "buildFreezeTx" -> <<"txSender", "bridgeAergoAddr", "receiverEthAddr">>
      [] o \in {"unlockable", "validateERC721Unlockable"} -> BurnProofChecks
      [] o \in {"buildBurnProof", "buildFreezeProof", "buildUnlockArgs", "unlock"} ->
            BurnProofChecks
      [] o \in {"buildUnlockERC721Args", "unlockERC721"} -> BurnProofChecks \o <<"tokenId">>
      [] o = "increaseApproval" -> <<"spender", "erc20Addr">>
      [] o = "lock" -> <<"receiverAergoAddr", "erc20Addr", "bridgeEthAddr">>
      [] o \in {"unfreezable", "mintable"} ->
            <<"bridgeEthAddr", "bridgeAergoAddr", "receiverAergoAddr", "erc20Addr">>
      [] o = "buildLockProof" -> LockProofChecks
      [] o \in {"buildMintTx", "buildUnfreezeTx"} -> <<"txSender">> \o LockProofChecks
      [] o = "validateARC2Mintable" ->
            <<"bridgeEthAddr", "bridgeAergoAddr", "receiverAergoAddr", "erc20Addr", "tokenId">>
      [] o = "buildLockERC721Proof" -> LockProofChecks \o <<"tokenId">>
      [] o = "buildUnlockERC721Tx" -> <<"txSender">> \o LockProofChecks \o <<"tokenId">>

\* One format check: the checker of the parameter's kind.
CheckPasses(p, v) ==
    CASE ParamKind(p) = "aergo" -> checkAergoAddress(v)
      [] ParamKind(p) = "eth" -> checkEthereumAddress(v)
      [] ParamKind(p) = "tokenId" -> checkTokenId(v)

ChecksPass(o, a) == \A i \in 1..Len(Checks(o)) : CheckPasses(Checks(o)[i], a[Checks(o)[i]])

\* The keys an operation derives from its arguments before its first await.
EthTrieKey(o, a) ==
    CASE o = "unlockable" -> UnlocksTrieKey(a["receiverEthAddr"], a["erc20Addr"])
      [] o = "validateERC721Unlockable" ->
            UnlocksERC721TrieKey(a["receiverEthAddr"], a["tokenId"], a["erc20Addr"])
      [] o \in {"unfreezable", "mintable", "buildLockProof", "buildMintTx", "buildUnfreezeTx"} ->
            LocksTrieKey(a["receiverAergoAddr"], a["erc20Addr"])
      [] o \in {"validateARC2Mintable", "buildLockERC721Proof", "buildUnlockERC721Tx"} ->
            buildLockERC721TrieKey(a["receiverAergoAddr"], a["tokenId"], a["erc20Addr"])
      [] OTHER -> keccak256(<<>>)

AergoStorageKey(o, a) ==
    CASE o \in {"unlockable", "buildBurnProof", "buildFreezeProof", "buildUnlockArgs", "unlock"} ->
            BurnsStorageKey(a["receiverEthAddr"], a["erc20Addr"])
      [] o \in {"validateERC721Unlockable", "buildUnlockERC721Args", "unlockERC721"} ->
            BurnsARC2StorageKey(a["receiverEthAddr"], a["tokenId"], a["erc20Addr"])
      [] o = "unfreezable" -> UnfreezesStorageKey(a["receiverAergoAddr"], a["erc20Addr"])
      [] o = "mintable" -> MintsStorageKey(a["receiverAergoAddr"], a["erc20Addr"])
      [] o = "validateARC2Mintable" ->
            MintsARC2StorageKey(a["receiverAergoAddr"], a["tokenId"], a["erc20Addr"])
      [] OTHER -> <<>>

\* The first await of each operation, once its checks have passed.
FirstAwait(o) ==
    CASE o \in {"buildBurnTx", "buildFreezeTx"} -> "asTransaction"
      [] o = "unlockable" -> "wd_totalDeposit"
      [] o \in {"buildBurnProof", "buildFreezeProof", "buildUnlockArgs", "unlock",
                "buildUnlockERC721Args", "unlockERC721"} -> "dp_lastMergedHeight"
      [] o = "validateERC721Unlockable" -> "v721_burn"
      [] o = "increaseApproval" -> "increaseAllowance"
      [] o = "lock" -> "send"
      [] o \in {"unfreezable", "mintable"} -> "ew_totalDeposit"
      [] o \in {"buildLockProof", "buildLockERC721Proof", "buildMintTx", "buildUnfreezeTx",
                "buildUnlockERC721Tx"} -> "ep_lastMergedHeight"
      [] o = "validateARC2Mintable" -> "vARC2_lock"

\* ------------------------------------------------------------------------
\* A call: entry, exit
\* ------------------------------------------------------------------------

NoProof == [varProofs |-> <<>>, storageProof |-> <<>>]

NoLocals ==
    [ethTrieKey |-> keccak256(<<>>), aergoStorageKey |-> <<>>,
     totalDeposit |-> NaN, totalWithdrawn |-> NaN, lastMergedHeight |-> NaN,
     root |-> {}, anchoredDeposit |-> NaN, proof |-> NoProof,
     lastAnchorHeight |-> Undefined, blockNum |-> NaN, caught |-> "none"]

NoResult == [status |-> "none", value |-> <<>>]
Returned(v) == [status |-> "returned", value |-> v]
Thrown(e) == [status |-> "thrown", error |-> e]

Logged(req, resp) == Append(rpcLog, [req |-> req, resp |-> resp])

\* A call as its caller sees it: what went in (operation, arguments, the
\* answers of the chains and of the ABI) and what came out (the requests, the
\* transactions, the outcome).
NoCall == [op |-> "none"]
Requests(log) == [i \in 1..Len(log) |-> log[i].req]
Responses(log) == [i \in 1..Len(log) |-> log[i].resp]
Observed ==
    [op |-> op, args |-> args, responses |-> Responses(rpcLog), given |-> given,
     requests |-> Requests(rpcLog), txSent |-> txSent, result |-> result]

\* A faulty variant: the failed step is tried again.
Retry(e) ==
    /\ pc' = pc
    /\ result' = result

\* The call ends by throwing (a rejected promise for an async operation).
Throw(e) ==
    /\ pc' = "done"
    /\ result' = Thrown(e)

\* The call ends by returning v.
Return(v) ==
    /\ pc' = "done"
    /\ result' = Returned(v)

\* An exported operation is called: its format checks run, then its keys are
\* derived and it stands at its first await.
Call(o, a) ==
    /\ pc = "idle"
    /\ op' = o
    /\ args' = a
    /\ IF ChecksPass(o, a)
       THEN /\ pc' = FirstAwait(o)
            /\ result' = NoResult
            /\ loc' = [NoLocals EXCEPT !.ethTrieKey = EthTrieKey(o, a),
                                       !.aergoStorageKey = AergoStorageKey(o, a)]
       ELSE /\ Throw(<<"invalid address">>)
            /\ loc' = NoLocals
    /\ rpcLog' = <<>>
    /\ txSent' = <<>>
    /\ given' = <<>>
    /\ UNCHANGED <<bridge, prev, chainVars>>

Invoke ==
    /\ pc = "idle"
    /\ \E o \in OpsOf(bridge) : \E a \in ArgSets(o) : Call(o, a)

\* The exports each file leaves unimplemented for the other kind of asset.
NotImplementedOps(b) ==
    IF b = "aergoToEth"
    THEN {"aergoToEth.lock", "aergoToEth.mintable", "aergoToEth.buildLockProof",
          "aergoToEth.mint"}
    ELSE {"ethToAergo.burn", "ethToAergo.unlockable", "ethToAergo.buildBurnProof",
          "ethToAergo.unlock"}

\* throw new Error('Not implemented')
NotImplemented ==
    /\ pc = "idle"
    /\ \E o \in NotImplementedOps(bridge) : op' = o
    /\ args' = <<>>
    /\ Throw(<<"Not implemented">>)
    /\ loc' = NoLocals
    /\ rpcLog' = <<>>
    /\ txSent' = <<>>
    /\ given' = <<>>
    /\ UNCHANGED <<bridge, prev, chainVars>>

\* The caller has taken the outcome; the library is idle again.
Settle ==
    /\ pc = "done"
    /\ pc' = "idle"
    /\ op' = "none"
    /\ args' = <<>>
    /\ loc' = NoLocals
    /\ rpcLog' = <<>>
    /\ txSent' = <<>>
    /\ result' = NoResult
    /\ given' = <<>>
    /\ UNCHANGED <<bridge, prev, chainVars>>

\* The same, the caller keeping what the call was given and what it did.
SettleKept ==
    /\ pc = "done"
    /\ prev = NoCall
    /\ prev' = Observed
    /\ pc' = "idle"
    /\ op' = "none"
    /\ args' = <<>>
    /\ loc' = NoLocals
    /\ rpcLog' = <<>>
    /\ txSent' = <<>>
    /\ result' = NoResult
    /\ given' = <<>>
    /\ UNCHANGED <<bridge, chainVars>>

\* ------------------------------------------------------------------------
\* Aergo -> Ethereum (aergoToEth.js)
\* ------------------------------------------------------------------------

\* A faulty variant: when the query rejects, the deposit an earlier call was
\* answered with is used again.
DepositOrLastSeen(resp) ==
    IF resp.ok THEN resp.value
    ELSE IF /\ prev # NoCall
            /\ \E i \in 1..Len(prev.requests) :
                  prev.requests[i].rpc = "hera.queryContractState" /\ prev.responses[i].ok
    THEN prev.responses[CHOOSE i \in 1..Len(prev.requests) :
                           /\ prev.requests[i].rpc = "hera.queryContractState"
                           /\ prev.responses[i].ok].value
    ELSE Num(0)

\* A faulty variant: a query that rejects leaves the deposit undefined.
DepositOrUndefined(resp) == IF resp.ok THEN resp.value ELSE Undefined

\* withdrawable: a contract-state query that rejects counts as 0.
DepositOrZero(resp) == IF resp.ok THEN resp.value ELSE Num(0)

\* A faulty variant: pending first, withdrawable second.
PendingAndWithdrawable(totalDeposit, anchoredDeposit, totalWithdrawn) ==
    << toString10(minus(totalDeposit, anchoredDeposit)),
       toString10(minus(anchoredDeposit, totalWithdrawn)) >>

\* withdrawable: calculate withdrawable and pending
WithdrawableAndPending(totalDeposit, anchoredDeposit, totalWithdrawn) ==
    << toString10(minus(anchoredDeposit, totalWithdrawn)),
       toString10(minus(totalDeposit, anchoredDeposit)) >>

\* A faulty variant: the header of the best block is asked for.
BestBlockHeight(lastMergedHeight) == chainHeight

\* The height whose header is asked for, given the last merged height read.
MergeBlockHeight(lastMergedHeight) == toNumber(lastMergedHeight)

\* totalDeposit : total latest deposit including pending
withdrawable_totalDeposit ==
    /\ pc = "wd_totalDeposit"
    /\ \E lost \in BOOLEAN :
          LET req == QueryContractState(args["bridgeAergoAddr"], loc.aergoStorageKey, {})
              resp == IF lost THEN Rejected ELSE AergoQueryOne(req)
          IN /\ loc' = [loc EXCEPT !.totalDeposit = BigNumber(DepositOrZero(resp))]
             /\ rpcLog' = Logged(req, resp)
    /\ pc' = "wd_totalWithdrawn"
    /\ UNCHANGED <<bridge, prev, chainVars, op, args, given, txSent, result>>

\* get total withdrawn
withdrawable_totalWithdrawn ==
    /\ pc = "wd_totalWithdrawn"
    /\ \E lost \in BOOLEAN :
          LET req == GetStorageAt(args["bridgeEthAddr"], loc.ethTrieKey, {})
              resp == IF lost THEN Rejected ELSE Answer(EthStorage(req))
          IN /\ rpcLog' = Logged(req, resp)
             /\ IF resp.ok
                THEN /\ loc' = [loc EXCEPT !.totalWithdrawn = BigNumber(resp.value)]
                     /\ pc' = "wd_lastMergedHeight"
                     /\ UNCHANGED result
                ELSE /\ Throw(<<"getStorageAt">>)
                     /\ UNCHANGED loc
    /\ UNCHANGED <<bridge, prev, chainVars, op, args, given, txSent>>

\* get last anchor
withdrawable_lastMergedHeight ==
    /\ pc = "wd_lastMergedHeight"
    /\ \E lost \in BOOLEAN :
          LET req == GetStorageAt(args["bridgeEthAddr"], SlotNumber(1), {})
              resp == IF lost THEN Rejected ELSE Answer(EthStorage(req))
          IN /\ rpcLog' = Logged(req, resp)
             /\ IF resp.ok
                THEN /\ loc' = [loc EXCEPT !.lastMergedHeight = BigNumber(resp.value)]
                     /\ pc' = "wd_mergeBlockHeader"
                     /\ UNCHANGED result
                ELSE /\ Throw(<<"getStorageAt">>)
                     /\ UNCHANGED loc
    /\ UNCHANGED <<bridge, prev, chainVars, op, args, given, txSent>>

withdrawable_mergeBlockHeader ==
    /\ pc = "wd_mergeBlockHeader"
    /\ \E lost \in BOOLEAN :
          LET req == GetBlockHeaders(MergeBlockHeight(loc.lastMergedHeight))
              headers == BlockHeaders(MergeBlockHeight(loc.lastMergedHeight))
              resp == IF lost \/ headers = <<>> THEN Rejected ELSE Answer(headers)
          IN /\ rpcLog' = Logged(req, resp)
             /\ IF resp.ok
                THEN /\ loc' = [loc EXCEPT !.root =
                                    {BufferFromBase64(resp.value[1].header.blocksroothash)}]
                     /\ pc' = "wd_anchoredDeposit"
                     /\ UNCHANGED result
                ELSE /\ Throw(<<"getBlockHeaders">>)
                     /\ UNCHANGED loc
    /\ UNCHANGED <<bridge, prev, chainVars, op, args, given, txSent>>

\* get anchored deposit : total deposit before the last anchor
withdrawable_anchoredDeposit ==
    /\ pc = "wd_anchoredDeposit"
    /\ \E lost \in BOOLEAN :
          LET req == QueryContractState(args["bridgeAergoAddr"], loc.aergoStorageKey, loc.root)
              resp == IF lost THEN Rejected ELSE AergoQueryOne(req)
              anchoredDeposit == BigNumber(DepositOrZero(resp))
          IN /\ loc' = [loc EXCEPT !.anchoredDeposit = anchoredDeposit]
             /\ rpcLog' = Logged(req, resp)
             /\ Return(WithdrawableAndPending(loc.totalDeposit, anchoredDeposit,
                                              loc.totalWithdrawn))
    /\ UNCHANGED <<bridge, prev, chainVars, op, args, given, txSent>>

\* The contract-state proof an honest Aergo node builds for a variable at a
\* root: the value with its inclusion flag, and the audit path to the root.
AergoStateProof(req) ==
    LET v == AergoStateVar(req.key, ReadHeight(req))
    IN [varProofs |->
            << [key |-> req.key,
                value |-> IF v = {} THEN Undefined ELSE DecimalValue(RecordValue(v)),
                inclusion |-> v # {},
                auditPath |-> << [node |-> ReadHeight(req)] >>,
                bitmap |-> [bits |-> ReadHeight(req)],
                height |-> ReadHeight(req) + 1] >>,
        storageProof |-> <<>>]

\* A proof that does not verify against the root: a value the state at the
\* root does not hold, under a path of some other tree.
ForgedStateProof(req) ==
    [varProofs |->
        << [key |-> req.key,
            value |-> DecimalValue(MaxAmount + 1),
            inclusion |-> TRUE,
            auditPath |-> << [node |-> MaxHeight + 1] >>,
            bitmap |-> [bits |-> MaxHeight + 1],
            height |-> 0] >>,
     storageProof |-> <<>>]

\* Every answer hera.queryContractStateProof may give.
StateProofAnswers(req) ==
    {Rejected, Answer(NoProof), Answer(AergoStateProof(req)), Answer(ForgedStateProof(req))}

\* A faulty variant: a proof of non-inclusion is not handed on.
InclusionProofOf(proof) ==
    IF proof.varProofs # <<>> /\ proof.varProofs[1].inclusion THEN proof ELSE NoProof

\* buildDepositProof: what is returned for the answer of the node.
DepositProofOf(proof) == proof

\* "0x".concat(Buffer.from(x).toString('hex')).padEnd(66, '0')
HexPadEnd66(x) == [hex66 |-> x]

\* A faulty variant: the nodes of the merkle path are left as the proof has them.
UnlockArgsRawPath(a, proof) ==
    [receiver |-> a["receiverEthAddr"],
     balance |-> proof.varProofs[1].value,
     token |-> a["erc20Addr"],
     mp |-> proof.varProofs[1].auditPath,
     bitmap |-> HexPadEnd66(proof.varProofs[1].bitmap),
     leafHeight |-> FormatDigits(proof.varProofs[1].height, 10)]

\* buildUnlockArgs: the arguments of unlock, from the proof.
UnlockArgs(a, proof) ==
    [receiver |-> a["receiverEthAddr"],
     balance |-> proof.varProofs[1].value,
     token |-> a["erc20Addr"],
     mp |-> [i \in 1..Len(proof.varProofs[1].auditPath) |->
                HexPadEnd66(proof.varProofs[1].auditPath[i])],
     bitmap |-> HexPadEnd66(proof.varProofs[1].bitmap),
     leafHeight |-> FormatDigits(proof.varProofs[1].height, 10)]

\* buildUnlockERC721Args: the arguments of unlockERC721, from the proof.
UnlockERC721Args(a, proof) ==
    [uintTokenId |-> BigNumber(Str(a["tokenId"])),
     blockNum |-> proof.varProofs[1].value,
     mp |-> [i \in 1..Len(proof.varProofs[1].auditPath) |->
                HexPadEnd66(proof.varProofs[1].auditPath[i])],
     bitmap |-> HexPadEnd66(proof.varProofs[1].bitmap),
     leafHeight |-> FormatDigits(proof.varProofs[1].height, 10)]

\* buildDepositProof: check last merged height
buildDepositProof_lastMergedHeight ==
    /\ pc = "dp_lastMergedHeight"
    /\ \E lost \in BOOLEAN :
          LET req == GetStorageAt(args["bridgeEthAddr"], SlotNumber(1), {})
              resp == IF lost THEN Rejected ELSE Answer(EthStorage(req))
          IN /\ rpcLog' = Logged(req, resp)
             /\ IF resp.ok
                THEN /\ loc' = [loc EXCEPT !.lastMergedHeight = BigNumber(resp.value)]
                     /\ pc' = "dp_mergeBlockHeader"
                     /\ UNCHANGED result
                ELSE /\ Throw(<<"getStorageAt">>)
                     /\ UNCHANGED loc
    /\ UNCHANGED <<bridge, prev, chainVars, op, args, given, txSent>>

buildDepositProof_mergeBlockHeader ==
    /\ pc = "dp_mergeBlockHeader"
    /\ \E lost \in BOOLEAN :
          LET req == GetBlockHeaders(MergeBlockHeight(loc.lastMergedHeight))
              headers == BlockHeaders(MergeBlockHeight(loc.lastMergedHeight))
              resp == IF lost \/ headers = <<>> THEN Rejected ELSE Answer(headers)
          IN /\ rpcLog' = Logged(req, resp)
             /\ IF resp.ok
                THEN /\ loc' = [loc EXCEPT !.root =
                                    {BufferFromBase64(resp.value[1].header.blocksroothash)}]
                     /\ pc' = "dp_proof"
                     /\ UNCHANGED result
                ELSE /\ Throw(<<"getBlockHeaders">>)
                     /\ UNCHANGED loc
    /\ UNCHANGED <<bridge, prev, chainVars, op, args, given, txSent>>

\* buildDepositProof: the proof query, and the way back through the callers
\* (buildBurnProof, buildUnlockArgs, buildUnlockERC721Args) up to the send.
buildDepositProof_proof ==
    /\ pc = "dp_proof"
    /\ LET req == QueryContractStateProof(args["bridgeAergoAddr"], loc.aergoStorageKey,
                                          loc.root)
       IN \E resp \in StateProofAnswers(req) :
             /\ rpcLog' = Logged(req, resp)
             /\ IF ~resp.ok
                THEN /\ Throw(<<"queryContractStateProof">>)
                     /\ UNCHANGED loc
                ELSE LET proof == DepositProofOf(resp.value)
                     IN /\ loc' = [loc EXCEPT !.proof = proof]
                        /\ IF op \in {"buildBurnProof", "buildFreezeProof"}
                           THEN Return(proof)
                           ELSE IF proof.varProofs = <<>>
                           THEN Throw(<<"TypeError">>)
                           ELSE IF op = "buildUnlockArgs"
                           THEN Return(UnlockArgs(args, proof))
                           ELSE IF op = "buildUnlockERC721Args"
                           THEN Return(UnlockERC721Args(args, proof))
                           ELSE /\ pc' = "send"
                                /\ UNCHANGED result
    /\ UNCHANGED <<bridge, prev, chainVars, op, args, given, txSent>>

\* The answers a read of an ARC2 / ERC721 record may get: these records are
\* read once per call, and what they hold is an input of the call.
BlockNumbers == 0..MaxHeight

BurnARC2Answers == {Rejected} \cup {Answer(DecimalValue(n)) : n \in BlockNumbers}

StorageWordAnswers ==
    {Rejected, Answer(Undefined)} \cup {Answer(HexWord(n)) : n \in BlockNumbers}

MintARC2Answers ==
    {Rejected, Answer(Undefined)} \cup {Answer(DecimalValue(n)) : n \in BlockNumbers}

\* validateERC721Unlockable: the burn record on Aergo
validateERC721Unlockable_burn ==
    /\ pc = "v721_burn"
    /\ LET req == QueryContractState(args["bridgeAergoAddr"], loc.aergoStorageKey, {})
       IN \E resp \in BurnARC2Answers :
             /\ rpcLog' = Logged(req, resp)
             /\ IF resp.ok
                THEN /\ loc' = [loc EXCEPT !.blockNum = BigNumber(resp.value)]
                     /\ pc' = "v721_unlock"
                     /\ UNCHANGED result
                ELSE /\ Throw(<<"Token does not burnt on Aergo, or Check your input is valid">>)
                     /\ UNCHANGED loc
    /\ UNCHANGED <<bridge, prev, chainVars, op, args, given, txSent>>

\* validateERC721Unlockable: get ethereum status
validateERC721Unlockable_unlock ==
    /\ pc = "v721_unlock"
    /\ LET req == GetStorageAt(args["bridgeEthAddr"], loc.ethTrieKey, {})
       IN \E resp \in StorageWordAnswers :
             /\ rpcLog' = Logged(req, resp)
             /\ IF ~resp.ok THEN Throw(<<"getStorageAt">>)
                ELSE IF resp.value = Undefined THEN Return(Undefined)
                ELSE IF eq(loc.blockNum, BigNumber(resp.value))
                THEN Throw(<<"The Token is Already Minted on Aergo">>)
                ELSE Return(Undefined)
    /\ UNCHANGED <<bridge, prev, chainVars, op, args, given, loc, txSent>>

\* The transaction object of buildBurnTx and buildFreezeTx.
BurnTx(a) ==
    [contract |-> a["bridgeAergoAddr"], method |-> "burn",
     args |-> [receiver |-> toLowerCase(slice2(a["receiverEthAddr"])),
               amount |-> [_bignum |-> a["amount"]],
               token |-> a["mintedArc1Addr"]],
     from |-> a["txSender"], amount |-> <<>>, limit |-> GasLimit(a)]

\* A faulty variant: the receiver keeps the case it was given in.
FreezeTxReceiverAsGiven(a) ==
    [contract |-> a["bridgeAergoAddr"], method |-> "freeze",
     args |-> [receiver |-> slice2(a["receiverEthAddr"]),
               amount |-> [_bignum |-> a["amount"]]],
     from |-> a["txSender"], amount |-> a["amount"] \o <<" aer">>, limit |-> GasLimit(a)]

FreezeTx(a) ==
    [contract |-> a["bridgeAergoAddr"], method |-> "freeze",
     args |-> [receiver |-> toLowerCase(slice2(a["receiverEthAddr"])),
               amount |-> [_bignum |-> a["amount"]]],
     from |-> a["txSender"], amount |-> a["amount"] \o <<" aer">>, limit |-> GasLimit(a)]

\* The transaction unlock and unlockERC721 send to the Ethereum bridge.
UnlockTx(a, proof) ==
    LET ua == UnlockArgs(a, proof)
    IN [contract |-> a["bridgeEthAddr"], method |-> "unlock",
        args |-> [receiver |-> a["receiverEthAddr"], balance |-> ua.balance,
                  token |-> ua.token, mp |-> ua.mp, bitmap |-> ua.bitmap,
                  leafHeight |-> ua.leafHeight],
        from |-> <<"defaultAccount">>, gas |-> GasLimit(a)]

UnlockERC721Tx(a, proof) ==
    LET ua == UnlockERC721Args(a, proof)
    IN [contract |-> a["bridgeEthAddr"], method |-> "unlockERC721",
        args |-> [receiver |-> a["receiverEthAddr"], uintTokenId |-> ua.uintTokenId,
                  blockNum |-> ua.blockNum, token |-> a["erc20Addr"], mp |-> ua.mp,
                  bitmap |-> ua.bitmap, leafHeight |-> ua.leafHeight],
        from |-> <<"defaultAccount">>, gas |-> GasLimit(a)]

\* ------------------------------------------------------------------------
\* Ethereum -> Aergo (ethToAergo.js)
\* ------------------------------------------------------------------------

\* The transaction lock sends to the Ethereum bridge.
LockTx(a) ==
    [contract |-> a["bridgeEthAddr"], method |-> "lock",
     args |-> [token |-> a["erc20Addr"], amount |-> a["amount"],
               receiver |-> a["receiverAergoAddr"]],
     from |-> <<"defaultAccount">>, gas |-> GasLimit(a)]

\* The operations whose last step is a send, and what each sends.
SendingOps == {"unlock", "unlockERC721", "lock"}

SentTx(o, a, proof) ==
    CASE o = "unlock" -> UnlockTx(a, proof)
      [] o = "unlockERC721" -> UnlockERC721Tx(a, proof)
      [] o = "lock" -> LockTx(a)

\* contract.methods.<method>(...).send(...): the transaction goes to the
\* provider; the promise resolves with a receipt or rejects.
send ==
    /\ pc = "send"
    /\ op \in SendingOps
    /\ txSent' = Append(txSent, SentTx(op, args, loc.proof))
    /\ \E mined \in BOOLEAN :
          /\ given' = Append(given, [send |-> mined])
          /\ IF mined THEN Return(<<"receipt">>) ELSE Throw(<<"send">>)
    /\ UNCHANGED <<bridge, prev, chainVars, op, args, loc, rpcLog>>

\* A faulty variant: an undefined record is kept as it is.
WithdrawnAsRead(totalWithdrawn) == totalWithdrawn

\* withdrawable: an undefined withdraw record counts as 0.
WithdrawnOrZero(totalWithdrawn) ==
    IF totalWithdrawn = Undefined THEN Num(0) ELSE totalWithdrawn

\* The block parameter web3 is given: a block number.
BlockParam(v) ==
    CASE v.kind = "number" -> {v.n}
      [] v.kind = "string" -> {ParseDigits(v.s, 10)}
      [] OTHER -> {}

\* A faulty variant: the proof is asked at the latest block.
LatestBlock(lastMergedHeight) == {}

\* The block a deposit proof is asked at, given the anchor height read.
ProofBlock(lastMergedHeight) == BlockParam(lastMergedHeight)

\* totalDeposit : total latest deposit including pending
withdrawableEth_totalDeposit ==
    /\ pc = "ew_totalDeposit"
    /\ \E lost \in BOOLEAN :
          LET req == GetStorageAt(args["bridgeEthAddr"], loc.ethTrieKey, {})
              resp == IF lost THEN Rejected ELSE Answer(EthStorage(req))
          IN /\ rpcLog' = Logged(req, resp)
             /\ IF resp.ok
                THEN /\ loc' = [loc EXCEPT !.totalDeposit = BigNumber(resp.value)]
                     /\ pc' = "ew_totalWithdrawn"
                     /\ UNCHANGED result
                ELSE /\ Throw(<<"getStorageAt">>)
                     /\ UNCHANGED loc
    /\ UNCHANGED <<bridge, prev, chainVars, op, args, given, txSent>>

\* get total withdrawn and last anchor height
withdrawableEth_totalWithdrawn ==
    /\ pc = "ew_totalWithdrawn"
    /\ \E lost \in BOOLEAN :
          LET req == QueryContractState(args["bridgeAergoAddr"],
                                        <<AnchorHeightKey, loc.aergoStorageKey>>, {})
              resp == IF lost THEN Rejected ELSE AergoQueryMany(req)
          IN /\ rpcLog' = Logged(req, resp)
             /\ IF resp.ok
                THEN /\ loc' = [loc EXCEPT
                                  !.lastAnchorHeight = resp.value[1],
                                  !.totalWithdrawn = BigNumber(WithdrawnOrZero(resp.value[2]))]
                     /\ pc' = "ew_anchoredDeposit"
                     /\ UNCHANGED result
                ELSE /\ Throw(<<"queryContractState">>)
                     /\ UNCHANGED loc
    /\ UNCHANGED <<bridge, prev, chainVars, op, args, given, txSent>>

\* get anchored deposit : total deposit before the last anchor
withdrawableEth_anchoredDeposit ==
    /\ pc = "ew_anchoredDeposit"
    /\ \E lost \in BOOLEAN :
          LET req == GetStorageAt(args["bridgeEthAddr"], loc.ethTrieKey,
                                  BlockParam(loc.lastAnchorHeight))
              resp == IF lost THEN Rejected ELSE Answer(EthStorage(req))
          IN /\ rpcLog' = Logged(req, resp)
             /\ IF resp.ok
                THEN /\ loc' = [loc EXCEPT !.anchoredDeposit = BigNumber(resp.value)]
                     /\ Return(WithdrawableAndPending(loc.totalDeposit,
                                                      BigNumber(resp.value),
                                                      loc.totalWithdrawn))
                ELSE /\ Throw(<<"getStorageAt">>)
                     /\ UNCHANGED loc
    /\ UNCHANGED <<bridge, prev, chainVars, op, args, given, txSent>>

\* The storage proof an honest Ethereum node builds at a block.
EthStorageProof(req) ==
    [varProofs |-> <<>>,
     storageProof |->
        << [key |-> req.key, value |-> EthStorage(req),
            proof |-> << [node |-> ReadHeight(req)] >>] >>]

\* A proof that does not verify against the anchored root.
ForgedStorageProof(req) ==
    [varProofs |-> <<>>,
     storageProof |->
        << [key |-> req.key, value |-> HexWord(MaxAmount + 1),
            proof |-> << [node |-> MaxHeight + 1] >>] >>]

\* Every answer web3.eth.getProof may give.
StorageProofAnswers(req) ==
    {Rejected, Answer(NoProof), Answer(EthStorageProof(req)), Answer(ForgedStorageProof(req))}

\* buildDepositProof: what is returned for the answer of the node.
LockProofOf(proof) == proof

\* buildDepositProof: check last merged height
buildDepositProofEth_lastMergedHeight ==
    /\ pc = "ep_lastMergedHeight"
    /\ \E lost \in BOOLEAN :
          LET req == QueryContractState(args["bridgeAergoAddr"], AnchorHeightKey, {})
              resp == IF lost THEN Rejected ELSE AergoQueryOne(req)
          IN /\ rpcLog' = Logged(req, resp)
             /\ IF resp.ok
                THEN /\ loc' = [loc EXCEPT !.lastAnchorHeight = resp.value]
                     /\ pc' = "ep_proof"
                     /\ UNCHANGED result
                ELSE /\ Throw(<<"queryContractState">>)
                     /\ UNCHANGED loc
    /\ UNCHANGED <<bridge, prev, chainVars, op, args, given, txSent>>

\* buildDepositProof: the proof, and the way back through buildLockProof or
\* buildLockERC721Proof to the operation that asked.
buildDepositProofEth_proof ==
    /\ pc = "ep_proof"
    /\ LET req == GetProof(args["bridgeEthAddr"], loc.ethTrieKey,
                           ProofBlock(loc.lastAnchorHeight))
       IN \E resp \in StorageProofAnswers(req) :
             /\ rpcLog' = Logged(req, resp)
             /\ IF ~resp.ok
                THEN /\ Throw(<<"getProof">>)
                     /\ UNCHANGED loc
                ELSE LET proof == LockProofOf(resp.value)
                     IN /\ loc' = [loc EXCEPT !.proof = proof]
                        /\ IF op \in {"buildLockProof", "buildLockERC721Proof"}
                           THEN Return(proof)
                           ELSE IF proof.storageProof = <<>>
                           THEN Throw(<<"TypeError">>)
                           ELSE /\ pc' = "asTransaction"
                                /\ UNCHANGED result
    /\ UNCHANGED <<bridge, prev, chainVars, op, args, given, txSent>>

\* The transaction objects of buildMintTx, buildUnfreezeTx, buildUnlockERC721Tx.
MintTx(a, proof) ==
    [contract |-> a["bridgeAergoAddr"], method |-> "mint",
     args |-> [receiver |-> a["receiverAergoAddr"],
               balance |-> [_bignum |-> proof.storageProof[1].value],
               token |-> toLowerCase(slice2(a["erc20Addr"])),
               ap |-> proof.storageProof[1].proof],
     from |-> a["txSender"], amount |-> <<>>, limit |-> GasLimit(a)]

UnfreezeTx(a, proof) ==
    [contract |-> a["bridgeAergoAddr"], method |-> "unfreeze",
     args |-> [receiver |-> a["receiverAergoAddr"],
               balance |-> [_bignum |-> proof.storageProof[1].value],
               ap |-> proof.storageProof[1].proof],
     from |-> a["txSender"], amount |-> <<>>, limit |-> GasLimit(a)]

MintARC2Tx(a, proof) ==
    [contract |-> a["bridgeAergoAddr"], method |-> "mintARC2",
     args |-> [receiver |-> a["receiverAergoAddr"], tokenId |-> a["tokenId"],
               blockNum |-> [_bignum |-> proof.storageProof[1].value],
               token |-> toLowerCase(slice2(a["erc20Addr"])),
               ap |-> proof.storageProof[1].proof],
     from |-> a["txSender"], amount |-> <<>>, limit |-> GasLimit(a)]

BuilderOps == {"buildBurnTx", "buildFreezeTx", "buildMintTx", "buildUnfreezeTx",
               "buildUnlockERC721Tx"}

BuiltTx(o, a, proof) ==
    CASE o = "buildBurnTx" -> BurnTx(a)
      [] o = "buildFreezeTx" -> FreezeTx(a)
      [] o = "buildMintTx" -> MintTx(a, proof)
      [] o = "buildUnfreezeTx" -> UnfreezeTx(a, proof)
      [] o = "buildUnlockERC721Tx" -> MintARC2Tx(a, proof)

\* A faulty variant: the builder broadcasts what it has built.
BroadcastByBuilder(o, tx) == <<tx>>

\* What a builder does with the transaction it has built: nothing goes to a
\* chain, the object is returned.
SubmittedByBuilder(o, tx) == <<>>

\* contract.<method>(...args).asTransaction({...}): the herajs transaction
\* object is built from the ABI (a TypeError when the ABI lacks the method)
\* and returned to the caller, unsigned.
asTransaction ==
    /\ pc = "asTransaction"
    /\ op \in BuilderOps
    /\ \E inAbi \in BOOLEAN :
          /\ given' = Append(given, [abi |-> inAbi])
          /\ IF inAbi
             THEN /\ Return(BuiltTx(op, args, loc.proof))
                  /\ txSent' = txSent \o SubmittedByBuilder(op, BuiltTx(op, args, loc.proof))
             ELSE /\ Throw(<<"TypeError">>)
                  /\ UNCHANGED txSent
    /\ UNCHANGED <<bridge, prev, chainVars, op, args, loc, rpcLog>>

\* validateARC2Mintable: the lock record on Ethereum
validateARC2Mintable_lock ==
    /\ pc = "vARC2_lock"
    /\ LET req == GetStorageAt(args["bridgeEthAddr"], loc.ethTrieKey, {})
       IN \E resp \in StorageWordAnswers :
             /\ rpcLog' = Logged(req, resp)
             /\ IF ~resp.ok
                THEN /\ Throw(<<"getStorageAt">>)
                     /\ UNCHANGED loc
                ELSE IF resp.value = Undefined
                THEN /\ Throw(<<"given token is not locked">>)
                     /\ UNCHANGED loc
                ELSE IF eq(BigNumber(resp.value), BigNumber(Num(0)))
                THEN /\ Throw(<<"Token does not locked on Ethereum, or Check your input is valid">>)
                     /\ UNCHANGED loc
                ELSE /\ loc' = [loc EXCEPT !.blockNum = BigNumber(resp.value)]
                     /\ pc' = "vARC2_mint"
                     /\ UNCHANGED result
    /\ UNCHANGED <<bridge, prev, chainVars, op, args, given, txSent>>

\* A faulty variant: a mint query that rejects fails the call.
validateARC2Mintable_mintOrThrow ==
    /\ pc = "vARC2_mint"
    /\ LET req == QueryContractState(args["bridgeAergoAddr"], loc.aergoStorageKey, {})
       IN \E resp \in MintARC2Answers :
             /\ rpcLog' = Logged(req, resp)
             /\ IF ~resp.ok THEN Throw(<<"queryContractState">>)
                ELSE IF resp.value = Undefined THEN Return(Undefined)
                ELSE IF eq(loc.blockNum, BigNumber(resp.value))
                THEN Throw(<<"The Token is Already Minted on Aergo">>)
                ELSE Return(Undefined)
    /\ UNCHANGED <<bridge, prev, chainVars, op, args, given, loc, txSent>>

\* validateARC2Mintable: the mint record on Aergo; a query that rejects leaves
\* mintedOnAergo at 0.
validateARC2Mintable_mint ==
    /\ pc = "vARC2_mint"
    /\ LET req == QueryContractState(args["bridgeAergoAddr"], loc.aergoStorageKey, {})
       IN \E resp \in MintARC2Answers :
             LET mintedOnAergo == IF resp.ok THEN resp.value ELSE Num(0)
             IN /\ rpcLog' = Logged(req, resp)
                /\ IF mintedOnAergo = Undefined THEN Return(Undefined)
                   ELSE IF eq(loc.blockNum, BigNumber(mintedOnAergo))
                   THEN Throw(<<"The Token is Already Minted on Aergo">>)
                   ELSE Return(Undefined)
    /\ UNCHANGED <<bridge, prev, chainVars, op, args, given, loc, txSent>>

\* gas: 300000 on the increaseAllowance path
IncreaseAllowanceGas == 300000

\* What contract.methods.increaseAllowance(spender, amount).send(...) does:
\* it sends, or it throws before anything is sent: a TypeError when the ABI
\* has no increaseAllowance, another Error when web3 refuses the call.
SendOutcomes == {"sent", "TypeError", "Error"}

\* The operands of the catch clause's test, as JavaScript values.
LogicalNot(error) == [class |-> "Boolean"]
InstanceofTypeError(v) == v.class = "TypeError"

\* catch(error) { if (!error instanceof TypeError) return promise; }
\* The test parses as (!error) instanceof TypeError.
CatchReturns(error) == InstanceofTypeError(LogicalNot(error))

ApprovalTx(a, method, gas) ==
    [contract |-> a["erc20Addr"], method |-> method,
     args |-> [spender |-> a["spender"], amount |-> a["amount"]],
     from |-> <<"defaultAccount">>, gas |-> gas]

\* increaseApproval: the try of increaseAllowance, its catch, and the legacy
\* increaseApproval after it; the function is synchronous.
increaseApproval ==
    /\ pc = "increaseAllowance"
    /\ \E outcome \in SendOutcomes : \E legacyInAbi \in BOOLEAN :
          /\ IF outcome = "sent"
             THEN /\ txSent' = Append(txSent,
                                      ApprovalTx(args, "increaseAllowance", IncreaseAllowanceGas))
                  /\ Return(<<"promise">>)
             ELSE IF CatchReturns([class |-> outcome])
             THEN /\ Return(Undefined)
                  /\ UNCHANGED txSent
             ELSE IF legacyInAbi
             THEN /\ txSent' = Append(txSent,
                                      ApprovalTx(args, "increaseApproval", GasLimit(args)))
                  /\ Return(<<"promise">>)
             ELSE /\ Throw(<<"TypeError">>)
                  /\ UNCHANGED txSent
          /\ loc' = [loc EXCEPT !.caught = IF outcome = "sent" THEN "none" ELSE outcome]
          /\ given' = Append(given, IF outcome = "sent" THEN [send |-> TRUE]
                                    ELSE [raised |-> outcome, abi |-> legacyInAbi])
    /\ UNCHANGED <<bridge, prev, chainVars, op, args, rpcLog>>

\* ------------------------------------------------------------------------
\* Specification
\* ------------------------------------------------------------------------

Init ==
    /\ bridge \in {"aergoToEth", "ethToAergo"}
    /\ chainHeight = 0
    /\ depositRecord = << {} >>
    /\ anchorHeight = 0
    /\ withdrawRecord = {}
    /\ op = "none"
    /\ args = <<>>
    /\ pc = "idle"
    /\ loc = NoLocals
    /\ rpcLog = <<>>
    /\ txSent = <<>>
    /\ result = NoResult
    /\ given = <<>>
    /\ prev = NoCall

\* One step of the call in progress.
CallStep ==
    \/ withdrawable_totalDeposit
    \/ withdrawable_totalWithdrawn
    \/ withdrawable_lastMergedHeight
    \/ withdrawable_mergeBlockHeader
    \/ withdrawable_anchoredDeposit
    \/ buildDepositProof_lastMergedHeight
    \/ buildDepositProof_mergeBlockHeader
    \/ buildDepositProof_proof
    \/ validateERC721Unlockable_burn
    \/ validateERC721Unlockable_unlock
    \/ send
    \/ asTransaction
    \/ withdrawableEth_totalDeposit
    \/ withdrawableEth_totalWithdrawn
    \/ withdrawableEth_anchoredDeposit
    \/ buildDepositProofEth_lastMergedHeight
    \/ buildDepositProofEth_proof
    \/ validateARC2Mintable_lock
    \/ validateARC2Mintable_mint
    \/ increaseApproval

Next ==
    \/ NewBlock
    \/ SetRoot
    \/ Withdraw
    \/ Invoke
    \/ NotImplemented
    \/ Settle
    \/ CallStep

Spec == Init /\ [][Next]_vars

\* The call in progress and the call kept agree on the first k requests and
\* on their answers.
Agree(log, k) ==
    /\ k <= Len(log)
    /\ k <= Len(prev.requests)
    /\ \A j \in 1..k : log[j].req = prev.requests[j] /\ log[j].resp = prev.responses[j]

\* The operation of the call kept is called again with the arguments it had.
InvokeAgain ==
    /\ prev # NoCall
    /\ prev.op \in OpsOf(bridge)
    /\ Call(prev.op, prev.args)

\* A repetition is followed as long as it is answered as the call kept was:
\* up to the first answer that differs.
Followed == rpcLog # <<>> => Agree(rpcLog, Len(rpcLog) - 1)

\* The library called again and again, by a caller who at some point keeps a
\* call and from then on repeats it, the chains standing still.
NextRepeat ==
    \/ prev = NoCall /\ Next
    \/ SettleKept
    \/ InvokeAgain
    \/ prev # NoCall /\ CallStep /\ Followed'
    \/ prev # NoCall /\ Settle

SpecRepeat == Init /\ [][NextRepeat]_vars

\* Every RPC issued answers or fails: the promise a call awaits settles, and
\* the event loop then resumes the call.
SpecLive == Init /\ [][Next]_vars /\ WF_vars(CallStep)

\* ------------------------------------------------------------------------
\* The key derivations, applied to two holders' inputs
\* ------------------------------------------------------------------------

\* The token ids given: decimal strings of one digit and more.
TokenIds ==
    UNION {[1..n -> {"4", "6"}] : n \in 1..MaxTokenIdLen}

\* The (receiver, tokenId, token address) triples a caller can pass: the
\* addresses are those the format checks let through.
Triples(b) ==
    [receiver : IF b = "aergoToEth"
                THEN {a \in {<<"0", "x", "3", "4">>, <<"0", "x", "3", "6">>,
                             <<"0", "x", "A", "b">>, <<"0", "x", "a", "b">>} :
                         checkEthereumAddress(a)}
                ELSE {a \in {<<"A", "4", "4">>, <<"A", "4", "6">>, <<"A", "4">>} :
                         checkAergoAddress(a)},
     tokenId : {t \in TokenIds : checkTokenId(t)},
     token : {a \in {<<"0", "x", "3", "4">>, <<"0", "x", "C", "d">>, <<"0", "x", "c", "d">>} :
                 checkEthereumAddress(a)}]

\* The keys each module derives from a receiver, a token id and a token.
KeyNames(b) ==
    IF b = "aergoToEth"
    THEN {"UnlocksERC721TrieKey", "BurnsARC2StorageKey", "UnlocksTrieKey", "BurnsStorageKey"}
    ELSE {"buildLockERC721TrieKey", "MintsARC2StorageKey", "LocksTrieKey",
          "UnfreezesStorageKey", "MintsStorageKey"}

\* The byte string a key is made of: for a trie key, what keccak256 is
\* applied to.
KeyOf(k, t) ==
    CASE k = "UnlocksERC721TrieKey" ->
            UnlocksERC721TrieKey(t.receiver, t.tokenId, t.token).keccak256
      [] k = "BurnsARC2StorageKey" -> BurnsARC2StorageKey(t.receiver, t.tokenId, t.token)
      [] k = "UnlocksTrieKey" -> UnlocksTrieKey(t.receiver, t.token).keccak256
      [] k = "BurnsStorageKey" -> BurnsStorageKey(t.receiver, t.token)
      [] k = "buildLockERC721TrieKey" ->
            buildLockERC721TrieKey(t.receiver, t.tokenId, t.token).keccak256
      [] k = "MintsARC2StorageKey" -> MintsARC2StorageKey(t.receiver, t.tokenId, t.token)
      [] k = "LocksTrieKey" -> LocksTrieKey(t.receiver, t.token).keccak256
      [] k = "UnfreezesStorageKey" -> UnfreezesStorageKey(t.receiver, t.token)
      [] k = "MintsStorageKey" -> MintsStorageKey(t.receiver, t.token)

\* Two holders' inputs, before any key is derived.
InitKeys ==
    /\ bridge \in {"aergoToEth", "ethToAergo"}
    /\ chainHeight = 0
    /\ depositRecord = << {} >>
    /\ anchorHeight = 0
    /\ withdrawRecord = {}
    /\ op = "none"
    /\ args \in Triples(bridge) \X Triples(bridge)
    /\ pc = "keys"
    /\ loc = NoLocals
    /\ rpcLog = <<>>
    /\ txSent = <<>>
    /\ result = NoResult
    /\ given = <<>>
    /\ prev = NoCall

\* One key is derived for each of the two inputs.
DeriveKey ==
    /\ pc = "keys"
    /\ \E k \in KeyNames(bridge) :
          /\ op' = k
          /\ result' = Returned(<<KeyOf(k, args[1]), KeyOf(k, args[2])>>)
    /\ pc' = "done"
    /\ UNCHANGED <<bridge, chainVars, args, loc, rpcLog, txSent, given, prev>>

SpecKeys == InitKeys /\ [][DeriveKey]_vars

\* ------------------------------------------------------------------------
\* Properties
\* ------------------------------------------------------------------------

Last(seq) == seq[Len(seq)]

Big(n) == [nan |-> FALSE, n |-> n]

\* The pair of decimal strings for the three amounts.
PairOf(totalDeposit, anchoredDeposit, totalWithdrawn) ==
    << toString10(Big(anchoredDeposit - totalWithdrawn)),
       toString10(Big(totalDeposit - anchoredDeposit)) >>

\* Each read of unlockable takes what the chain holds as it is made, and the
\* pair returned is computed from the three amounts read.  With failedAsZero,
\* a deposit whose contract-state query rejected is 0 instead.
UnlockableReads(failedAsZero) ==
    op = "unlockable" =>
        /\ (pc = "wd_totalDeposit" /\ pc' = "wd_totalWithdrawn") =>
              loc'.totalDeposit =
                  IF failedAsZero /\ ~Last(rpcLog').resp.ok THEN Big(0)
                  ELSE Big(RecordValue(DepositAt(chainHeight)))
        /\ (pc = "wd_totalWithdrawn" /\ pc' = "wd_lastMergedHeight") =>
              /\ Last(rpcLog').req.block = {}
              /\ loc'.totalWithdrawn = Big(RecordValue(withdrawRecord))
        /\ (pc = "wd_lastMergedHeight" /\ pc' = "wd_mergeBlockHeader") =>
              loc'.lastMergedHeight = Big(anchorHeight)
        /\ (pc = "wd_mergeBlockHeader" /\ pc' = "wd_anchoredDeposit") =>
              loc'.root = {[root |-> loc.lastMergedHeight.n]}
        /\ (pc = "wd_anchoredDeposit" /\ pc' = "done") =>
              /\ Last(rpcLog').req.root = loc.root
              /\ loc'.anchoredDeposit =
                    IF failedAsZero /\ ~Last(rpcLog').resp.ok THEN Big(0)
                    ELSE Big(RecordValue(DepositAt(loc.lastMergedHeight.n)))
              /\ result' = Returned(PairOf(loc.totalDeposit.n, loc'.anchoredDeposit.n,
                                           loc.totalWithdrawn.n))

\* C1, as stated: unlockable returns [anchoredDeposit - totalWithdrawn,
\* totalDeposit - anchoredDeposit], totalDeposit being the burn record at the
\* latest Aergo state, anchoredDeposit the same record at the root of the
\* block whose height slot 1 of the Ethereum bridge holds, totalWithdrawn the
\* unlock record at 'latest'.
C1_UnlockableReadsTheRecords == [][UnlockableReads(FALSE)]_vars

\* C1, amended: the same, except that a deposit (latest or anchored) whose
\* Aergo contract-state query fails is taken as 0 whatever the record holds.
C1_UnlockableReadsTheRecordsOrZero == [][UnlockableReads(TRUE)]_vars

\* unlockable has returned a withdrawable and a pending amount that differ
\* from zero, every read answered.
C1_Witness ==
    /\ op = "unlockable" /\ pc = "done"
    /\ result = Returned(<< <<"1">>, <<"1">> >>)
    /\ \A i \in 1..Len(rpcLog) : rpcLog[i].resp.ok

\* The reads of mintable and unfreezable, and the pair they return.
MintableReads ==
    op \in {"mintable", "unfreezable"} =>
        /\ (pc = "ew_totalDeposit" /\ pc' = "ew_totalWithdrawn") =>
              /\ Last(rpcLog').req.block = {}
              /\ loc'.totalDeposit = Big(RecordValue(DepositAt(chainHeight)))
        /\ (pc = "ew_totalWithdrawn" /\ pc' = "ew_anchoredDeposit") =>
              /\ Last(rpcLog').req.key =
                    <<AnchorHeightKey,
                      IF op = "mintable" THEN HolderMintsKey ELSE HolderUnfreezesKey>>
              /\ loc'.lastAnchorHeight = Num(anchorHeight)
              /\ loc'.totalWithdrawn = Big(RecordValue(withdrawRecord))
        /\ (pc = "ew_anchoredDeposit" /\ pc' = "done" /\ result'.status = "returned") =>
              /\ Last(rpcLog').req.block = {loc.lastAnchorHeight.n}
              /\ loc'.anchoredDeposit = Big(RecordValue(DepositAt(loc.lastAnchorHeight.n)))
              /\ result' = Returned(PairOf(loc.totalDeposit.n, loc'.anchoredDeposit.n,
                                           loc.totalWithdrawn.n))

\* C2: mintable and unfreezable return [anchoredDeposit - totalWithdrawn,
\* totalDeposit - anchoredDeposit], totalDeposit being the lock record at
\* 'latest', anchoredDeposit the lock record at the block whose height is the
\* Aergo bridge's _sv__anchorHeight, and totalWithdrawn the mint (resp.
\* unfreeze) record read in the same query as the anchor height, 0 when that
\* record is undefined.
C2_MintableReadsTheRecords == [][MintableReads]_vars

\* unfreezable has returned a pending amount while nothing was ever unfrozen
\* (the record is undefined), and mintable-style anchoring has happened.
C2_Witness ==
    /\ op \in {"mintable", "unfreezable"} /\ pc = "done"
    /\ result = Returned(<< <<"1">>, <<"1">> >>)
    /\ rpcLog[2].resp.value[2] = Undefined

\* Some address argument of the call in progress fails its format check.
BadAddressGiven ==
    /\ op \in OpsOf(bridge)
    /\ \E p \in AddressParams(op) : ~CheckPasses(p, args[p])

\* C3: an operation given an Aergo or Ethereum address that its format check
\* rejects has failed with no RPC read issued and no transaction built or
\* sent.
C3_BadAddressFailsFirst ==
    BadAddressGiven =>
        /\ pc = "done"
        /\ result.status = "thrown"
        /\ rpcLog = <<>>
        /\ txSent = <<>>

\* buildMintTx was given a well-formed sender and a malformed Aergo bridge
\* address (checked last, inside buildLockProof), and has failed.
C3_Witness ==
    /\ op = "buildMintTx"
    /\ args["txSender"] = SenderAergo
    /\ args["bridgeAergoAddr"] = BadAergo
    /\ \A p \in AddressParams(op) \ {"bridgeAergoAddr"} : CheckPasses(p, args[p])
    /\ pc = "done"
    /\ result.status = "thrown"

\* C4: the legacy increaseApproval transaction is sent only when the
\* increaseAllowance attempt raised a TypeError; any other error it raises
\* sends nothing.
C4_LegacyOnlyAfterTypeError ==
    (/\ op = "increaseApproval"
     /\ pc = "done"
     /\ \E i \in 1..Len(txSent) : txSent[i].method = "increaseApproval")
        => loc.caught = "TypeError"

\* The operations that go through the Aergo -> Ethereum buildDepositProof.
DepositProofOps ==
    {"buildBurnProof", "buildFreezeProof", "buildUnlockArgs", "buildUnlockERC721Args",
     "unlock", "unlockERC721"}

\* The height the first read of the call was answered with.
HeightRead == toNumber(BigNumber(rpcLog[1].resp.value))

\* C5: the Aergo -> Ethereum buildDepositProof reads slot 1 of the Ethereum
\* bridge first, then the Aergo block header at exactly the height read, then
\* the contract state proof, asked against the blocks-root hash of that
\* header.
C5_ProofAtTheHeightRead ==
    op \in DepositProofOps =>
        /\ Len(rpcLog) <= 3
        /\ Len(rpcLog) >= 1 =>
              rpcLog[1].req = GetStorageAt(args["bridgeEthAddr"], SlotNumber(1), {})
        /\ Len(rpcLog) >= 2 =>
              /\ rpcLog[1].resp.ok
              /\ rpcLog[2].req = GetBlockHeaders(HeightRead)
        /\ Len(rpcLog) >= 3 =>
              /\ rpcLog[2].resp.ok
              /\ rpcLog[2].resp.value[1].header.blockno = HeightRead
              /\ rpcLog[3].req.rpc = "hera.queryContractStateProof"
              /\ rpcLog[3].req.root =
                    {BufferFromBase64(rpcLog[2].resp.value[1].header.blocksroothash)}

\* buildBurnProof has returned a proof taken at an anchored height that is
\* neither 0 nor the best block.
C5_Witness ==
    /\ op = "buildBurnProof" /\ pc = "done" /\ result.status = "returned"
    /\ Len(rpcLog) = 3
    /\ HeightRead = 1
    /\ chainHeight = 2

LockProofOps == {"buildLockProof", "buildLockERC721Proof"}

\* The lock proof is handed back at this step.
LockProofReturned ==
    /\ op \in LockProofOps
    /\ pc = "ep_proof"
    /\ pc' = "done"
    /\ result'.status = "returned"

\* C6, as stated: the block at which the Ethereum storage proof is taken is
\* the anchored height of the Aergo bridge at the moment the proof is
\* returned, whatever anchors are merged between the call's two RPCs.
C6_ProofAtTheAnchorOnReturn ==
    [][LockProofReturned => Last(rpcLog').req.block = {anchorHeight'}]_vars

\* C6, amended: the block at which the proof is taken is the anchored height
\* the call's own _sv__anchorHeight query was answered with, which was the
\* anchored height at the moment of that query; at the moment the proof is
\* returned the anchored height is that or a later one.
C6_ProofAtTheAnchorRead ==
    [][/\ (op \in LockProofOps /\ pc = "ep_lastMergedHeight" /\ pc' = "ep_proof") =>
              /\ Last(rpcLog').req.key = AnchorHeightKey
              /\ Last(rpcLog').resp.value = Num(anchorHeight)
       /\ LockProofReturned =>
              /\ Last(rpcLog').req.rpc = "web3.eth.getProof"
              /\ Last(rpcLog').req.block = {rpcLog[1].resp.value.n}
              /\ rpcLog[1].resp.value.n <= anchorHeight'
      ]_vars

\* buildLockProof has returned a proof taken at block 0 while the anchored
\* height is 1.
C6_Witness ==
    /\ op = "buildLockProof" /\ pc = "done" /\ result.status = "returned"
    /\ rpcLog[2].req.block = {0}
    /\ anchorHeight = 1

\* C7: unlock has sent a transaction only once the burn proof of the receiver
\* and token was obtained (slot 1, header and proof query all answered), and
\* the transaction it sends is the bridge's unlock of that receiver and token
\* with the balance, merkle path, bitmap and leaf height of that one proof;
\* when any step before fails nothing is sent.
C7_UnlockSendsTheProof ==
    (op = "unlock" /\ txSent # <<>>) =>
        /\ Len(txSent) = 1
        /\ Len(rpcLog) = 3
        /\ \A i \in 1..3 : rpcLog[i].resp.ok
        /\ rpcLog[3].req.rpc = "hera.queryContractStateProof"
        /\ rpcLog[3].req.key = BurnsStorageKey(args["receiverEthAddr"], args["erc20Addr"])
        /\ LET p == rpcLog[3].resp.value.varProofs[1]
               t == txSent[1]
           IN /\ t.contract = args["bridgeEthAddr"]
              /\ t.method = "unlock"
              /\ t.args.receiver = args["receiverEthAddr"]
              /\ t.args.token = args["erc20Addr"]
              /\ t.args.balance = p.value
              /\ t.args.mp = [i \in 1..Len(p.auditPath) |-> HexPadEnd66(p.auditPath[i])]
              /\ t.args.bitmap = HexPadEnd66(p.bitmap)
              /\ t.args.leafHeight = FormatDigits(p.height, 10)

\* unlock has sent the transaction for a burnt amount of 2 proved at height 1.
C7_Witness ==
    /\ op = "unlock" /\ pc = "done"
    /\ Len(txSent) = 1
    /\ txSent[1].args.balance = DecimalValue(2)
    /\ txSent[1].args.leafHeight = <<"2">>

ProofOps == {"buildBurnProof", "buildFreezeProof", "buildLockProof", "buildLockERC721Proof"}

\* C8: whatever the node answers to the proof request (a proof, a proof of
\* non-inclusion, a proof that does not verify, an object with no proof in
\* it), the answer is what the call returns, as it is.
C8_ProofReturnedAsReceived ==
    (/\ op \in ProofOps
     /\ pc = "done"
     /\ rpcLog # <<>>
     /\ Last(rpcLog).req.rpc \in {"hera.queryContractStateProof", "web3.eth.getProof"}
     /\ Last(rpcLog).resp.ok)
        => result = Returned(Last(rpcLog).resp.value)

\* buildBurnProof has returned a proof that does not verify against the
\* anchored root.
C8_Witness ==
    /\ op = "buildBurnProof" /\ pc = "done" /\ result.status = "returned"
    /\ result.value = ForgedStateProof(Last(rpcLog).req)

ReadRpcs ==
    {"web3.eth.getStorageAt", "web3.eth.getProof", "hera.getBlockHeaders",
     "hera.queryContractState", "hera.queryContractStateProof"}

QueryOps ==
    {"unlockable", "mintable", "unfreezable", "validateERC721Unlockable",
     "validateARC2Mintable", "buildBurnProof", "buildFreezeProof", "buildLockProof",
     "buildLockERC721Proof", "buildUnlockArgs", "buildUnlockERC721Args"}

\* C9: a transaction is submitted only by increaseApproval, lock, unlock and
\* unlockERC721; a builder returns the transaction object it built and
\* submits nothing; a query operation issues read RPCs only.
C9_OnlyFourOperationsSubmit ==
    /\ txSent # <<>> => op \in {"increaseApproval", "lock", "unlock", "unlockERC721"}
    /\ (op \in BuilderOps /\ pc = "done" /\ result.status = "returned") =>
          /\ result.value = BuiltTx(op, args, loc.proof)
          /\ txSent = <<>>
    /\ op \in QueryOps \cup BuilderOps =>
          /\ txSent = <<>>
          /\ \A i \in 1..Len(rpcLog) : rpcLog[i].req.rpc \in ReadRpcs

\* buildMintTx has returned the mint transaction of a locked amount, nothing
\* submitted.
C9_Witness ==
    /\ op = "buildMintTx" /\ pc = "done" /\ result.status = "returned"
    /\ result.value.method = "mint"
    /\ result.value.args.balance = [_bignum |-> HexWord(1)]
    /\ txSent = <<>>

\* C10: a call of an operation with the arguments of an earlier call issues,
\* as long as it is answered as that call was, the requests that call issued;
\* answered throughout as that call was (by the chains, by the ABI, by its
\* send), it ends where that call ended, with the same transactions submitted
\* and the same return value or error.  Nothing of the calls in between or
\* before is left to tell the two apart.
C10_SameInputsSameBehaviour ==
    (prev # NoCall /\ op = prev.op /\ args = prev.args) =>
        /\ \A i \in 1..Len(rpcLog) :
              Agree(rpcLog, i - 1) =>
                  /\ i <= Len(prev.requests)
                  /\ rpcLog[i].req = prev.requests[i]
        /\ (Agree(rpcLog, Len(rpcLog)) /\ given = prev.given) =>
              /\ pc = "done" <=> Len(rpcLog) = Len(prev.requests)
              /\ pc = "done" => /\ txSent = prev.txSent
                                /\ result = prev.result

\* unlockable, called a second time with the same arguments and given the
\* same five answers (the first of them a failure), has returned.
C10_Witness ==
    /\ prev # NoCall /\ op = prev.op /\ args = prev.args
    /\ op = "unlockable" /\ pc = "done" /\ result.status = "returned"
    /\ Len(rpcLog) = 5
    /\ Agree(rpcLog, 5)
    /\ ~rpcLog[1].resp.ok
    /\ result.value[1] = <<"1">>

\* The most RPC reads a call of each operation issues.
MostReads(o) ==
    CASE o = "unlockable" -> 5
      [] o \in {"mintable", "unfreezable"} -> 3
      [] o \in DepositProofOps -> 3
      [] o \in {"buildLockProof", "buildLockERC721Proof", "buildMintTx", "buildUnfreezeTx",
                "buildUnlockERC721Tx"} -> 2
      [] o \in {"validateERC721Unlockable", "validateARC2Mintable"} -> 2
      [] OTHER -> 0

\* No call issues more reads than its operation's code has awaits, and none
\* submits more than one transaction.
StraightLine ==
    /\ Len(rpcLog) <= MostReads(op)
    /\ Len(txSent) <= 1
    /\ Len(given) <= 1

\* C11: every operation issues a bounded number of RPCs (unlockable 5,
\* mintable and unfreezable 3, the deposit proofs 3 resp. 2, increaseApproval
\* one transaction whichever path it takes), and, every RPC issued answering
\* or failing, every call in progress completes with a result or an error.
C11_StraightLineAndCompletes ==
    /\ []StraightLine
    /\ (pc \notin {"idle", "done"}) ~> (pc = "done" /\ result.status \in {"returned", "thrown"})

\* unlockable has completed after its five reads.
C11_Witness ==
    /\ op = "unlockable" /\ pc = "done" /\ result.status = "returned"
    /\ Len(rpcLog) = 5

\* The statuses the documentation of validateARC2Mintable names.
Statuses == {<<"minted">>, <<"mintable">>, <<"error">>}

\* C12: a call of validateARC2Mintable that has ended has returned a pair: a
\* status (minted, mintable or error) and a message, whatever the lock record
\* on Ethereum and the mint record on Aergo were answered with (both reads
\* answered, none rejected).
C12_OutcomeIsAStatusPair ==
    (/\ op = "validateARC2Mintable" /\ pc = "done"
     /\ rpcLog # <<>>
     /\ \A i \in 1..Len(rpcLog) : rpcLog[i].resp.ok) =>
        /\ result.status = "returned"
        /\ result.value # Undefined
        /\ Len(result.value) = 2
        /\ result.value[1] \in Statuses

\* An RPC of one of the given kinds was rejected during the call.
Failed(rpcs) ==
    \E i \in 1..Len(rpcLog) : rpcLog[i].req.rpc \in rpcs /\ ~rpcLog[i].resp.ok

\* The deposit the i-th RPC of the call was answered with, 0 when it failed.
DepositRead(i) ==
    BigNumber(IF rpcLog[i].resp.ok THEN rpcLog[i].resp.value ELSE Num(0))

\* C13: in unlockable (Aergo->Ethereum withdrawable), a failed Aergo
\* contract-state query (latest deposit, deposit at the anchored root) does
\* not fail the call: its value is taken as 0 and the pair is computed and
\* returned; a failed Ethereum storage read or a failed Aergo block-header
\* read fails the call, and no pair is returned.
C13_AergoQueryFailureIsZero ==
    (op = "unlockable" /\ pc = "done" /\ rpcLog # <<>>) =>
        IF Failed({"web3.eth.getStorageAt", "hera.getBlockHeaders"})
        THEN result.status = "thrown"
        ELSE /\ Len(rpcLog) = 5
             /\ result = Returned(<< toString10(minus(DepositRead(5), loc.totalWithdrawn)),
                                     toString10(minus(DepositRead(1), DepositRead(5))) >>)

\* unlockable has returned a pair although both contract-state queries
\* failed.
C13_Witness ==
    /\ op = "unlockable" /\ pc = "done" /\ Len(rpcLog) = 5
    /\ ~rpcLog[1].resp.ok /\ ~rpcLog[5].resp.ok
    /\ result.status = "returned"

\* C14: every transaction the library sends or builds carries the caller's
\* gasLimit as its gas limit, and 300000 when gasLimit is omitted: the
\* transactions sent by unlock, unlockERC721, lock and by either path of
\* increaseApproval, and the transactions returned by the builders.
C14_GasLimitIsTheCallers ==
    /\ \A i \in 1..Len(txSent) : txSent[i].gas = GasLimit(args)
    /\ (op \in BuilderOps /\ pc = "done" /\ result.status = "returned") =>
          result.value.limit = GasLimit(args)

\* The block numbers the two reads of a validation were answered with are
\* numbers, and the same number.
SameBlockNumber(first, second) ==
    /\ ~BigNumber(first).nan /\ ~BigNumber(second).nan
    /\ BigNumber(first).n = BigNumber(second).n

\* The outcome of a call of validateERC721Unlockable that has made its first
\* read: it fails exactly when the burn query failed or the unlock record is
\* defined and equals the burn block number (and, with ethFailureFails, when
\* the Ethereum read itself failed); after a failed burn query Ethereum is not
\* read; a call that does not fail returns undefined.
UnlockableOutcome(ethFailureFails) ==
    (op = "validateERC721Unlockable" /\ pc = "done" /\ rpcLog # <<>>) =>
        LET burnFailed == ~rpcLog[1].resp.ok
            unlockFailed == Len(rpcLog) = 2 /\ ~rpcLog[2].resp.ok
            alreadyUnlocked ==
                /\ Len(rpcLog) = 2 /\ rpcLog[2].resp.ok
                /\ rpcLog[2].resp.value # Undefined
                /\ SameBlockNumber(rpcLog[1].resp.value, rpcLog[2].resp.value)
        IN /\ result.status = "thrown" <=>
                 (burnFailed \/ alreadyUnlocked \/ (ethFailureFails /\ unlockFailed))
           /\ burnFailed => Len(rpcLog) = 1
           /\ result.status # "thrown" => result = Returned(Undefined)

BareLowerHex(s) == \A i \in 1..Len(s) : \E d \in 1..16 : HexDigits[d] = s[i]

\* C17: the transaction buildFreezeTx returns carries as native amount the
\* amount string passed as the freeze argument, followed by " aer", and as
\* receiver argument the Ethereum address without "0x" and in lower case; the
\* transaction buildBurnTx returns has the amount as burn argument only, and
\* no native amount.
C17_FreezeAttachesTheAmount ==
    /\ (op = "buildFreezeTx" /\ pc = "done" /\ result.status = "returned") =>
          LET tx == result.value
          IN /\ tx.method = "freeze"
             /\ tx.args.amount = [_bignum |-> args["amount"]]
             /\ tx.amount = args["amount"] \o <<" aer">>
             /\ BareLowerHex(tx.args.receiver)
             /\ Len(tx.args.receiver) = Len(args["receiverEthAddr"]) - 2
             /\ \A i \in 1..Len(tx.args.receiver) :
                   tx.args.receiver[i] = LowerChar(args["receiverEthAddr"][i + 2])
    /\ (op = "buildBurnTx" /\ pc = "done" /\ result.status = "returned") =>
          LET tx == result.value
          IN /\ tx.method = "burn"
             /\ tx.args.amount = [_bignum |-> args["amount"]]
             /\ tx.amount = <<>>

\* buildFreezeTx has returned a transaction for a receiver address given with
\* upper-case digits.
C17_Witness ==
    /\ op = "buildFreezeTx" /\ pc = "done" /\ result.status = "returned"
    /\ result.value.amount = <<"1", " aer">>
    /\ result.value.args.receiver # slice2(args["receiverEthAddr"])

\* The keys made of a receiver, a token id and a token address.
ERC721Keys ==
    {"UnlocksERC721TrieKey", "BurnsARC2StorageKey", "buildLockERC721TrieKey",
     "MintsARC2StorageKey"}

\* The address an address string spells: an Ethereum address whatever the
\* case of its hex digits, an Aergo address as it is written.
AddressOf(a) == IF a[1] = "0" /\ a[2] = "x" THEN toLowerCase(a) ELSE a

\* Two inputs name the same record of a key: the same receiver, the same
\* token and, for the ERC721/ARC2 keys, the same token id.
SameRecord(k, t1, t2) ==
    /\ AddressOf(t1.receiver) = AddressOf(t2.receiver)
    /\ AddressOf(t1.token) = AddressOf(t2.token)
    /\ k \in ERC721Keys => t1.tokenId = t2.tokenId

\* C18: for addresses the format checks accept, two different (receiver,
\* tokenId, token address) triples never give the same concatenated byte
\* string in the ERC721/ARC2 key derivations, token ids being of any length,
\* and two different (receiver, token) pairs never give the same ERC20 key.
C18_KeysAreInjective ==
    (pc = "done" /\ op \in KeyNames(bridge)) =>
        (result.value[1] = result.value[2] => SameRecord(op, args[1], args[2]))

\* Two triples whose token ids differ in length, the shorter one followed by
\* a token address byte that spells the longer one's last digit, have given
\* different byte strings.
C18_Witness ==
    /\ pc = "done" /\ op = "UnlocksERC721TrieKey"
    /\ args[1] = [receiver |-> <<"0", "x", "3", "4">>, tokenId |-> <<"4">>,
                  token |-> <<"0", "x", "3", "4">>]
    /\ args[2] = [receiver |-> <<"0", "x", "3", "4">>, tokenId |-> <<"4", "4">>,
                  token |-> <<"0", "x", "3", "4">>]
    /\ SubSeq(result.value[1], 1, 3) = SubSeq(result.value[2], 1, 3)
    /\ result.value[1] # result.value[2]

====
